---- MODULE Spec2Model ----
(***************************************************************************)
(* The compilation context of cranelift-codegen (src/context.rs): the      *)
(* pipeline that Context::compile drives one Function through, the         *)
(* flag-gated verification after each pass, and the life cycle             *)
(* (cleared / valid / stale) of the analyses the Context owns.             *)
(*                                                                         *)
(* The passes, the verifier and the target ISA are external to context.rs. *)
(* A pass is modelled by what its call site shows: which analyses it is    *)
(* handed and whether it returns a result that compile propagates with     *)
(* `?`.  What a pass does to the Function is a nondeterministic choice     *)
(* over those outcomes.                                                    *)
(***************************************************************************)
EXTENDS Naturals, Sequences, FiniteSets

VARIABLES
    func,           \* Context.func: what the verifier would find in it, and its code size
    cfg,            \* Context.cfg: "cleared", "valid" or "stale"
    domtree,        \* Context.domtree
    loop_analysis,  \* Context.loop_analysis
    regalloc,       \* Context.regalloc: "cleared" or "used"
    flags,          \* isa.flags(): opt_level, enable_verifier, enable_nan_canonicalization
    pc,             \* position in compile: index of the next line of Pipeline
    result,         \* what compile returned (kind = "pending" while it runs)
    input,          \* history: the Function compile was called with
    trace,          \* history: every external call made so far, in order
    log,            \* history: the operations called on the Context, in order
    apc,            \* position in the function that called compile
    mem,            \* the memory that machine code is emitted to
    mem0,           \* history: mem when that function was entered
    sink,           \* the callbacks delivered to the relocation, trap and stack-map sinks
    ret,            \* what the function that called compile returned
    function,       \* FunctionRunner.function
    prot            \* protection of the runner's code page: "none", "rw" or "rx"

\* the Context, and one run of compile on it
ctx == <<func, cfg, domtree, loop_analysis, regalloc, flags, pc, result, input, trace>>
\* what lies outside compile
outer == <<log, apc, mem, mem0, sink, ret, function, prot>>
vars == <<func, cfg, domtree, loop_analysis, regalloc, flags, pc, result, input, trace,
          log, apc, mem, mem0, sink, ret, function, prot>>

(***************************************************************************)
(* Bounds.                                                                 *)
(***************************************************************************)
MaxViolations == 2      \* distinct structural violations the verifier can report
MaxLocViolations == 2   \* distinct location violations
MaxCodeSize == 2        \* largest CodeInfo.total_size

Violations == 1..MaxViolations
LocViolations == 1..MaxLocViolations

OptLevels == {"Fastest", "Default", "Best"}
AnalysisStates == {"cleared", "valid", "stale"}

(***************************************************************************)
(* Results.  CodegenResult<T> is Ok or a CodegenError; the error kinds     *)
(* used here are the verifier's and those of the three fallible passes.    *)
(***************************************************************************)
Pending == [kind |-> "pending", errors |-> {}, total_size |-> 0]
Ok == [kind |-> "Ok", errors |-> {}, total_size |-> 0]
OkInfo(n) == [kind |-> "Ok", errors |-> {}, total_size |-> n]
VerifierErr(errs) == [kind |-> "Verifier", errors |-> errs, total_size |-> 0]
PassErr(op) == [kind |-> op, errors |-> {}, total_size |-> 0]
IsOk(r) == r.kind = "Ok"

(***************************************************************************)
(* The verifier (external).  verify_context checks the Function and, as    *)
(* the comment on Context::verify says, that the dominator tree and the    *)
(* control flow graph are consistent with the function.                    *)
(***************************************************************************)
VerifyContext(f, c, d) ==
    {<<"func", v>> : v \in f.bad}
        \cup (IF c = "stale" THEN {<<"cfg", 0>>} ELSE {})
        \cup (IF d = "stale" THEN {<<"domtree", 0>>} ELSE {})

VerifyLocationsFn(f) == {<<"loc", v>> : v \in f.badloc}

(***************************************************************************)
(* History events.  op is the external function called, site the Context   *)
(* method that calls it, res what it returned; cfg, domtree and loop       *)
(* record the state of each analysis the callee is handed, at the call     *)
(* ("-" when it is not handed that analysis).                              *)
(***************************************************************************)
Event(op, site, res, c, d, l) ==
    [op |-> op, site |-> site, res |-> res, cfg |-> c, domtree |-> d, loop |-> l]

\* What the verifier itself returns (verify_context and verify_locations
\* return a Result besides filling `errors`); Context binds it with `let _ =`.
VerifierReturns == {"Ok", "Err"}

\* the verifier's own result handed on: success when the verifier returned
\* Ok, and otherwise one violation only
ReportAsReturned(errors, returned) ==
    IF returned = "Ok" \/ errors = {} THEN Ok
    ELSE VerifierErr({CHOOSE e \in errors : TRUE})

\* The end of verify and of verify_locations: `returned` was dropped by
\* `let _ =`; Ok(()) when errors.is_empty(), else Err(errors).
Report(errors, returned) ==
    IF errors = {} THEN Ok ELSE VerifierErr(errors)

\* Context::verify, called by `site`; rv is what verify_context returns
Verify(rv, site, f, c, d) ==
    LET r == Report(VerifyContext(f, c, d), rv)
    IN  [res |-> r, calls |-> <<Event("verify_context", site, r, c, d, "-")>>]

\* verify_if running the verifier whatever the flag
VerifyIfAlways(fl, site, f, c, d) ==
    {Verify(rv, site, f, c, d) : rv \in VerifierReturns}

\* Context::verify_if: what it can return, over what the verifier returns
VerifyIf(fl, site, f, c, d) ==
    IF fl.enable_verifier
    THEN {Verify(rv, site, f, c, d) : rv \in VerifierReturns}
    ELSE {[res |-> Ok, calls |-> <<>>]}

\* Context::verify_locations; rv is what the verifier's verify_locations returns
VerifyLocations(rv, site, f) ==
    LET r == Report(VerifyLocationsFn(f), rv)
    IN  [res |-> r, calls |-> <<Event("verify_locations", site, r, "-", "-", "-")>>]

\* Context::verify_locations_if: what it can return, over what the verifier
\* returns
VerifyLocationsIf(fl, site, f) ==
    IF fl.enable_verifier
    THEN {VerifyLocations(rv, site, f) : rv \in VerifierReturns}
    ELSE {[res |-> Ok, calls |-> <<>>]}

\* Pipeline with unreachable-code elimination placed before the recomputation
\* of the dominator tree
PipelineEliminateFirst == <<
    [call |-> "verify_if",                  when |-> "always"],
    [call |-> "compute_cfg",                when |-> "always"],
    [call |-> "preopt",                     when |-> "not_fastest"],
    [call |-> "canonicalize_nans",          when |-> "nan"],
    [call |-> "legalize",                   when |-> "always"],
    [call |-> "postopt",                    when |-> "not_fastest"],
    [call |-> "compute_domtree",            when |-> "best"],
    [call |-> "compute_loop_analysis",      when |-> "best"],
    [call |-> "licm",                       when |-> "best"],
    [call |-> "simple_gvn",                 when |-> "best"],
    [call |-> "eliminate_unreachable_code", when |-> "always"],
    [call |-> "compute_domtree",            when |-> "always"],
    [call |-> "dce",                        when |-> "not_fastest"],
    [call |-> "regalloc",                   when |-> "always"],
    [call |-> "prologue_epilogue",          when |-> "always"],
    [call |-> "shrink_instructions",        when |-> "best"],
    [call |-> "relax_branches",             when |-> "always"] >>

\* Pipeline without the unconditional recomputation of the dominator tree
PipelineNoRecompute == <<
    [call |-> "verify_if",                  when |-> "always"],
    [call |-> "compute_cfg",                when |-> "always"],
    [call |-> "preopt",                     when |-> "not_fastest"],
    [call |-> "canonicalize_nans",          when |-> "nan"],
    [call |-> "legalize",                   when |-> "always"],
    [call |-> "postopt",                    when |-> "not_fastest"],
    [call |-> "compute_domtree",            when |-> "best"],
    [call |-> "compute_loop_analysis",      when |-> "best"],
    [call |-> "licm",                       when |-> "best"],
    [call |-> "simple_gvn",                 when |-> "best"],
    [call |-> "eliminate_unreachable_code", when |-> "always"],
    [call |-> "dce",                        when |-> "not_fastest"],
    [call |-> "regalloc",                   when |-> "always"],
    [call |-> "prologue_epilogue",          when |-> "always"],
    [call |-> "shrink_instructions",        when |-> "best"],
    [call |-> "relax_branches",             when |-> "always"] >>

\* Pipeline with the loop analysis computed before the dominator tree
PipelineLoopFirst == <<
    [call |-> "verify_if",                  when |-> "always"],
    [call |-> "compute_cfg",                when |-> "always"],
    [call |-> "preopt",                     when |-> "not_fastest"],
    [call |-> "canonicalize_nans",          when |-> "nan"],
    [call |-> "legalize",                   when |-> "always"],
    [call |-> "postopt",                    when |-> "not_fastest"],
    [call |-> "compute_loop_analysis",      when |-> "best"],
    [call |-> "compute_domtree",            when |-> "best"],
    [call |-> "licm",                       when |-> "best"],
    [call |-> "simple_gvn",                 when |-> "best"],
    [call |-> "compute_domtree",            when |-> "always"],
    [call |-> "eliminate_unreachable_code", when |-> "always"],
    [call |-> "dce",                        when |-> "not_fastest"],
    [call |-> "regalloc",                   when |-> "always"],
    [call |-> "prologue_epilogue",          when |-> "always"],
    [call |-> "shrink_instructions",        when |-> "best"],
    [call |-> "relax_branches",             when |-> "always"] >>

\* Pipeline without the verification that compile starts with
PipelineNoInitialVerify == <<
    [call |-> "compute_cfg",                when |-> "always"],
    [call |-> "preopt",                     when |-> "not_fastest"],
    [call |-> "canonicalize_nans",          when |-> "nan"],
    [call |-> "legalize",                   when |-> "always"],
    [call |-> "postopt",                    when |-> "not_fastest"],
    [call |-> "compute_domtree",            when |-> "best"],
    [call |-> "compute_loop_analysis",      when |-> "best"],
    [call |-> "licm",                       when |-> "best"],
    [call |-> "simple_gvn",                 when |-> "best"],
    [call |-> "compute_domtree",            when |-> "always"],
    [call |-> "eliminate_unreachable_code", when |-> "always"],
    [call |-> "dce",                        when |-> "not_fastest"],
    [call |-> "regalloc",                   when |-> "always"],
    [call |-> "prologue_epilogue",          when |-> "always"],
    [call |-> "shrink_instructions",        when |-> "best"],
    [call |-> "relax_branches",             when |-> "always"] >>

(***************************************************************************)
(* Context::compile, as the ordered list of its calls, each with the       *)
(* condition of the `if` that encloses it.                                 *)
(***************************************************************************)
Pipeline == <<
    [call |-> "verify_if",                  when |-> "always"],
    [call |-> "compute_cfg",                when |-> "always"],
    [call |-> "preopt",                     when |-> "not_fastest"],
    [call |-> "canonicalize_nans",          when |-> "nan"],
    [call |-> "legalize",                   when |-> "always"],
    [call |-> "postopt",                    when |-> "not_fastest"],
    [call |-> "compute_domtree",            when |-> "best"],
    [call |-> "compute_loop_analysis",      when |-> "best"],
    [call |-> "licm",                       when |-> "best"],
    [call |-> "simple_gvn",                 when |-> "best"],
    [call |-> "compute_domtree",            when |-> "always"],
    [call |-> "eliminate_unreachable_code", when |-> "always"],
    [call |-> "dce",                        when |-> "not_fastest"],
    [call |-> "regalloc",                   when |-> "always"],
    [call |-> "prologue_epilogue",          when |-> "always"],
    [call |-> "shrink_instructions",        when |-> "best"],
    [call |-> "relax_branches",             when |-> "always"] >>

Returned == Len(Pipeline) + 1

\* the tier test written against the wrong level
HoldsWrongLevel(when, fl) ==
    CASE when = "always"      -> TRUE
      [] when = "not_fastest" -> fl.opt_level # "Default"
      [] when = "best"        -> fl.opt_level = "Best"
      [] when = "nan"         -> fl.enable_nan_canonicalization

\* NaN canonicalization gated by the tier as well as by its flag
HoldsNanByTier(when, fl) ==
    CASE when = "always"      -> TRUE
      [] when = "not_fastest" -> fl.opt_level # "Fastest"
      [] when = "best"        -> fl.opt_level = "Best"
      [] when = "nan"         -> fl.enable_nan_canonicalization /\ fl.opt_level # "Fastest"

\* the "best" passes enabled at every tier but "fastest"
HoldsBestAsNotFastest(when, fl) ==
    CASE when = "always"      -> TRUE
      [] when = "not_fastest" -> fl.opt_level # "Fastest"
      [] when = "best"        -> fl.opt_level # "Fastest"
      [] when = "nan"         -> fl.enable_nan_canonicalization

\* the conditions of compile's `if`s
Holds(when, fl) ==
    CASE when = "always"      -> TRUE
      [] when = "not_fastest" -> fl.opt_level # "Fastest"
      [] when = "best"        -> fl.opt_level = "Best"
      [] when = "nan"         -> fl.enable_nan_canonicalization

\* where control goes when the method called at line i returns: inside compile
\* to the next line of compile whose condition holds, and back to the caller
\* when the method was called on its own (apc = "call")
NextCall(i, fl) ==
    LET later == {j \in (i + 1)..Len(Pipeline) : Holds(Pipeline[j].when, fl)}
    IN  IF apc = "call" \/ later = {} THEN Returned
        ELSE CHOOSE j \in later : \A k \in later : j <= k

AtCall(name) == pc \in 1..Len(Pipeline) /\ Pipeline[pc].call = name

\* a step whose result is dropped instead of propagated
PropagateDropped(r, i, fl) ==
    [pc |-> NextCall(i, fl), result |-> IF NextCall(i, fl) = Returned THEN r ELSE Pending]

(***************************************************************************)
(* The `?` of compile: a failed step returns its error at once, anything   *)
(* else goes on to the next line.                                          *)
(***************************************************************************)
Propagate(r, i, fl) ==
    IF IsOk(r)
    THEN [pc |-> NextCall(i, fl), result |-> IF NextCall(i, fl) = Returned THEN r ELSE Pending]
    ELSE [pc |-> Returned, result |-> r]

(***************************************************************************)
(* The passes, by their call sites in context.rs.                          *)
(***************************************************************************)
\* the analyses a pass is handed
Takes(op) ==
    CASE op = "do_preopt"                  -> {"cfg"}
      [] op = "do_nan_canonicalization"    -> {}
      [] op = "legalize_function"          -> {"cfg"}
      [] op = "do_postopt"                 -> {}
      [] op = "do_licm"                    -> {"cfg", "domtree", "loop"}
      [] op = "do_simple_gvn"              -> {"domtree"}
      [] op = "eliminate_unreachable_code" -> {"cfg", "domtree"}
      [] op = "do_dce"                     -> {"domtree"}
      [] op = "regalloc.run"               -> {"cfg", "domtree"}
      [] op = "isa.prologue_epilogue"      -> {}
      [] op = "shrink_instructions"        -> {}
      [] op = "relax_branches"             -> {"cfg", "domtree"}

\* the passes whose result compile propagates with `?`
Fallible(op) == op \in {"regalloc.run", "isa.prologue_epilogue", "relax_branches"}

\* The passes that may alter the control flow: legalization ("legalization
\* may restructure control flow"; the comment in Context::legalize says it
\* mutates the CFG) and the passes of the "best" tier that run before the
\* unconditional recomputation of the dominator tree, which "covers both the
\* best-tier optional passes and legalization having altered control flow".
MayAlterControlFlow(op) == op \in {"legalize_function", "do_licm", "do_simple_gvn"}

\* What one run of a pass can do to the Function in the Context: alter the
\* control flow, add violations to those the verifier would already find,
\* fail, and (branch relaxation) compute the code size.
Outcomes(op) ==
    {o \in [alters : BOOLEAN, adds : SUBSET Violations, addsloc : SUBSET LocViolations,
            fails : BOOLEAN, size : 0..MaxCodeSize] :
        /\ o.alters => MayAlterControlFlow(op)
        /\ o.adds \cap func.bad = {}
        /\ o.addsloc \cap func.badloc = {}
        /\ o.fails => Fallible(op)
        /\ (o.size > 0) <=> (op = "relax_branches" /\ ~o.fails)}

\* the Function after the pass
FuncAfter(f, o) ==
    [bad |-> f.bad \cup o.adds, badloc |-> f.badloc \cup o.addsloc,
     size |-> IF o.size > 0 THEN o.size ELSE f.size]

\* Analysis a, in state st, after the pass.  An analysis is valid only as of
\* its last computation: a pass that changes the control flow invalidates
\* it, and recomputing it is left to the orchestrator, not to the pass.  The
\* one exception is the CFG under legalization, which recomputes the CFG
\* itself.
AnalysisAfter(a, st, op, o) ==
    IF o.alters /\ st = "valid" /\ ~(op = "legalize_function" /\ a = "cfg")
    THEN "stale"
    ELSE st

PassEvent(op, site, o) ==
    Event(op, site, IF o.fails THEN PassErr(op) ELSE OkInfo(o.size),
          IF "cfg" \in Takes(op) THEN cfg ELSE "-",
          IF "domtree" \in Takes(op) THEN domtree ELSE "-",
          IF "loop" \in Takes(op) THEN loop_analysis ELSE "-")

(***************************************************************************)
(* Initial state: Context::for_function(func), about to run compile(isa).  *)
(***************************************************************************)
Functions == [bad : SUBSET Violations, badloc : SUBSET LocViolations, size : {0}]

Flags == [opt_level : OptLevels, enable_verifier : BOOLEAN,
          enable_nan_canonicalization : BOOLEAN]

\* Context::for_function(f), and compile(isa) called on it
FreshCompile(f) ==
    /\ func = f
    /\ cfg = "cleared"
    /\ domtree = "cleared"
    /\ loop_analysis = "cleared"
    /\ regalloc = "cleared"
    /\ flags \in Flags
    /\ pc = 1
    /\ result = Pending
    /\ input = func
    /\ trace = <<>>

\* no signature: the Function is not run by a FunctionRunner
NoSignature == [params |-> 0, returns |-> <<>>, call_conv |-> "none"]

\* compile called on its own, by a caller that does nothing else
Init ==
    /\ \E f \in Functions : FreshCompile(f)
    /\ log = <<"compile">>
    /\ apc = "compile"
    /\ mem = <<>>
    /\ mem0 = <<>>
    /\ sink = <<>>
    /\ ret = Pending
    /\ function = [signature |-> NoSignature, body |-> func]
    /\ prot = "none"

(***************************************************************************)
(* The steps of compile.                                                   *)
(***************************************************************************)
\* a Context method that runs its pass and returns without verify_if
PassWithoutVerify(op, site, o) ==
    /\ func' = FuncAfter(func, o)
    /\ cfg' = AnalysisAfter("cfg", cfg, op, o)
    /\ domtree' = AnalysisAfter("domtree", domtree, op, o)
    /\ loop_analysis' = AnalysisAfter("loop", loop_analysis, op, o)
    /\ trace' = trace \o <<PassEvent(op, site, o)>>
    /\ pc' = NextCall(pc, flags)
    /\ result' = Pending

\* the end of a Context method whose last calls are the pass and verify_if
PassThenVerify(op, site, o) ==
    LET f2 == FuncAfter(func, o)
        c2 == AnalysisAfter("cfg", cfg, op, o)
        d2 == AnalysisAfter("domtree", domtree, op, o)
        l2 == AnalysisAfter("loop", loop_analysis, op, o)
    IN  \E v \in VerifyIf(flags, site, f2, c2, d2) :
            /\ func' = f2
            /\ cfg' = c2
            /\ domtree' = d2
            /\ loop_analysis' = l2
            /\ trace' = trace \o <<PassEvent(op, site, o)>> \o v.calls
            /\ pc' = Propagate(v.res, pc, flags).pc
            /\ result' = Propagate(v.res, pc, flags).result

\* compile: self.verify_if(isa)?
VerifyIfStep ==
    /\ AtCall("verify_if")
    /\ \E v \in VerifyIf(flags, "compile", func, cfg, domtree) :
       LET p == Propagate(v.res, pc, flags)
       IN  /\ pc' = p.pc
           /\ result' = p.result
           /\ trace' = trace \o v.calls
    /\ UNCHANGED <<func, cfg, domtree, loop_analysis, regalloc, flags, input>>
    /\ UNCHANGED outer

\* Context::compute_cfg
ComputeCfg ==
    /\ AtCall("compute_cfg")
    /\ cfg' = "valid"
    /\ trace' = trace \o <<Event("cfg.compute", "compute_cfg", Ok, "-", "-", "-")>>
    /\ pc' = Propagate(Ok, pc, flags).pc
    /\ result' = Propagate(Ok, pc, flags).result
    /\ UNCHANGED <<func, domtree, loop_analysis, regalloc, flags, input>>
    /\ UNCHANGED outer

\* Context::preopt
Preopt ==
    /\ AtCall("preopt")
    /\ \E o \in Outcomes("do_preopt") : PassThenVerify("do_preopt", "preopt", o)
    /\ UNCHANGED <<regalloc, flags, input>>
    /\ UNCHANGED outer

\* a method that checks the locations first and the structure second
PassThenVerifyBothUnchained(op, site, o, info) ==
    LET f2 == FuncAfter(func, o)
        c2 == AnalysisAfter("cfg", cfg, op, o)
        d2 == AnalysisAfter("domtree", domtree, op, o)
        l2 == AnalysisAfter("loop", loop_analysis, op, o)
    IN  \E v1 \in VerifyIf(flags, site, f2, c2, d2),
           v2 \in VerifyLocationsIf(flags, site, f2) :
            LET r == IF o.fails THEN PassErr(op)
                     ELSE IF ~IsOk(v2.res) THEN v2.res
                     ELSE IF ~IsOk(v1.res) THEN v1.res
                     ELSE info
                p == Propagate(r, pc, flags)
            IN  /\ func' = f2
                /\ cfg' = c2
                /\ domtree' = d2
                /\ loop_analysis' = l2
                /\ trace' = trace \o <<PassEvent(op, site, o)>>
                        \o (IF o.fails THEN <<>> ELSE v2.calls)
                        \o (IF o.fails \/ ~IsOk(v2.res) THEN <<>> ELSE v1.calls)
                /\ pc' = p.pc
                /\ result' = p.result

\* the end of a Context method that runs a fallible pass and then verify_if
\* and verify_locations_if; `info` is what the method returns on success
PassThenVerifyBoth(op, site, o, info) ==
    LET f2 == FuncAfter(func, o)
        c2 == AnalysisAfter("cfg", cfg, op, o)
        d2 == AnalysisAfter("domtree", domtree, op, o)
        l2 == AnalysisAfter("loop", loop_analysis, op, o)
    IN  \E v1 \in VerifyIf(flags, site, f2, c2, d2),
           v2 \in VerifyLocationsIf(flags, site, f2) :
            LET r == IF o.fails THEN PassErr(op)
                     ELSE IF ~IsOk(v1.res) THEN v1.res
                     ELSE IF ~IsOk(v2.res) THEN v2.res
                     ELSE info
                p == Propagate(r, pc, flags)
            IN  /\ func' = f2
                /\ cfg' = c2
                /\ domtree' = d2
                /\ loop_analysis' = l2
                /\ trace' = trace \o <<PassEvent(op, site, o)>>
                        \o (IF o.fails THEN <<>> ELSE v1.calls)
                        \o (IF o.fails \/ ~IsOk(v1.res) THEN <<>> ELSE v2.calls)
                /\ pc' = p.pc
                /\ result' = p.result

\* Context::canonicalize_nans
CanonicalizeNans ==
    /\ AtCall("canonicalize_nans")
    /\ \E o \in Outcomes("do_nan_canonicalization") :
          PassThenVerify("do_nan_canonicalization", "canonicalize_nans", o)
    /\ UNCHANGED <<regalloc, flags, input>>
    /\ UNCHANGED outer

\* legalize without the two clear() calls
LegalizeCallNoClear(o) ==
    LET f2 == FuncAfter(func, o)
        c2 == AnalysisAfter("cfg", cfg, "legalize_function", o)
        d2 == AnalysisAfter("domtree", domtree, "legalize_function", o)
        l2 == AnalysisAfter("loop", loop_analysis, "legalize_function", o)
    IN  {[func |-> f2, cfg |-> c2, domtree |-> d2, loop |-> l2,
          calls |-> <<PassEvent("legalize_function", "legalize", o)>> \o v.calls,
          res |-> v.res] : v \in VerifyIf(flags, "legalize", f2, c2, d2)}

\* Context::legalize: clears the dominator tree and the loop analysis, runs the
\* legalizer, then verify_if.  The Context after the call, the calls made and
\* the result returned, for each result verify_if can return.
LegalizeCall(o) ==
    LET f2 == FuncAfter(func, o)
        c2 == AnalysisAfter("cfg", cfg, "legalize_function", o)
    IN  {[func |-> f2, cfg |-> c2, domtree |-> "cleared", loop |-> "cleared",
          calls |-> <<Event("domtree.clear", "legalize", Ok, "-", domtree, "-"),
                      Event("loop_analysis.clear", "legalize", Ok, "-", "-", loop_analysis),
                      PassEvent("legalize_function", "legalize", o)>>
                    \o v.calls,
          res |-> v.res] : v \in VerifyIf(flags, "legalize", f2, c2, "cleared")}

\* compile: self.legalize(isa)?
Legalize ==
    /\ AtCall("legalize")
    /\ \E o \in Outcomes("legalize_function") :
        \E c \in LegalizeCall(o) :
          LET p == Propagate(c.res, pc, flags)
          IN  /\ func' = c.func
              /\ cfg' = c.cfg
              /\ domtree' = c.domtree
              /\ loop_analysis' = c.loop
              /\ trace' = trace \o c.calls
              /\ pc' = p.pc
              /\ result' = p.result
    /\ UNCHANGED <<regalloc, flags, input>>
    /\ UNCHANGED outer

\* Context::postopt
Postopt ==
    /\ AtCall("postopt")
    /\ \E o \in Outcomes("do_postopt") : PassThenVerify("do_postopt", "postopt", o)
    /\ UNCHANGED <<regalloc, flags, input>>
    /\ UNCHANGED outer

\* Context::compute_domtree: the tree is computed from the Function and the CFG
ComputeDomtree ==
    /\ AtCall("compute_domtree")
    /\ domtree' = IF cfg = "valid" THEN "valid" ELSE "stale"
    /\ trace' = trace \o <<Event("domtree.compute", "compute_domtree", Ok, cfg, "-", "-")>>
    /\ pc' = Propagate(Ok, pc, flags).pc
    /\ result' = Propagate(Ok, pc, flags).result
    /\ UNCHANGED <<func, cfg, loop_analysis, regalloc, flags, input>>
    /\ UNCHANGED outer

\* Context::compute_loop_analysis: computed from the Function, the CFG and the
\* dominator tree
ComputeLoopAnalysis ==
    /\ AtCall("compute_loop_analysis")
    /\ loop_analysis' = IF cfg = "valid" /\ domtree = "valid" THEN "valid" ELSE "stale"
    /\ trace' = trace
          \o <<Event("loop_analysis.compute", "compute_loop_analysis", Ok, cfg, domtree, "-")>>
    /\ pc' = Propagate(Ok, pc, flags).pc
    /\ result' = Propagate(Ok, pc, flags).result
    /\ UNCHANGED <<func, cfg, domtree, regalloc, flags, input>>
    /\ UNCHANGED outer

\* Context::licm
Licm ==
    /\ AtCall("licm")
    /\ \E o \in Outcomes("do_licm") : PassThenVerify("do_licm", "licm", o)
    /\ UNCHANGED <<regalloc, flags, input>>
    /\ UNCHANGED outer

\* Context::simple_gvn
SimpleGvn ==
    /\ AtCall("simple_gvn")
    /\ \E o \in Outcomes("do_simple_gvn") : PassThenVerify("do_simple_gvn", "simple_gvn", o)
    /\ UNCHANGED <<regalloc, flags, input>>
    /\ UNCHANGED outer

\* Context::eliminate_unreachable_code
EliminateUnreachableCode ==
    /\ AtCall("eliminate_unreachable_code")
    /\ \E o \in Outcomes("eliminate_unreachable_code") :
          PassThenVerify("eliminate_unreachable_code", "eliminate_unreachable_code", o)
    /\ UNCHANGED <<regalloc, flags, input>>
    /\ UNCHANGED outer

\* Context::dce
Dce ==
    /\ AtCall("dce")
    /\ \E o \in Outcomes("do_dce") : PassThenVerify("do_dce", "dce", o)
    /\ UNCHANGED <<regalloc, flags, input>>
    /\ UNCHANGED outer

\* Context::regalloc: the allocator's result is returned as it is; no verify_if
Regalloc ==
    /\ AtCall("regalloc")
    /\ \E o \in Outcomes("regalloc.run") :
          LET r == IF o.fails THEN PassErr("regalloc.run") ELSE Ok
              p == Propagate(r, pc, flags)
          IN  /\ func' = FuncAfter(func, o)
              /\ trace' = trace \o <<PassEvent("regalloc.run", "regalloc", o)>>
              /\ pc' = p.pc
              /\ result' = p.result
    /\ regalloc' = "used"
    /\ UNCHANGED <<cfg, domtree, loop_analysis, flags, input>>
    /\ UNCHANGED outer

\* Context::prologue_epilogue
PrologueEpilogue ==
    /\ AtCall("prologue_epilogue")
    /\ \E o \in Outcomes("isa.prologue_epilogue") :
          PassThenVerifyBoth("isa.prologue_epilogue", "prologue_epilogue", o, Ok)
    /\ UNCHANGED <<regalloc, flags, input>>
    /\ UNCHANGED outer

\* Context::shrink_instructions
ShrinkInstructions ==
    /\ AtCall("shrink_instructions")
    /\ \E o \in Outcomes("shrink_instructions") :
          PassThenVerifyBoth("shrink_instructions", "shrink_instructions", o, Ok)
    /\ UNCHANGED <<regalloc, flags, input>>
    /\ UNCHANGED outer

\* Context::relax_branches: returns the CodeInfo that branch relaxation computed
RelaxBranches ==
    /\ AtCall("relax_branches")
    /\ \E o \in Outcomes("relax_branches") :
          PassThenVerifyBoth("relax_branches", "relax_branches", o, OkInfo(o.size))
    /\ UNCHANGED <<regalloc, flags, input>>
    /\ UNCHANGED outer

Next ==
    \/ VerifyIfStep
    \/ ComputeCfg
    \/ Preopt
    \/ CanonicalizeNans
    \/ Legalize
    \/ Postopt
    \/ ComputeDomtree
    \/ ComputeLoopAnalysis
    \/ Licm
    \/ SimpleGvn
    \/ EliminateUnreachableCode
    \/ Dce
    \/ Regalloc
    \/ PrologueEpilogue
    \/ ShrinkInstructions
    \/ RelaxBranches

Spec == Init /\ [][Next]_vars

(***************************************************************************)
(* compile_and_emit: compile, then grow the caller's buffer and emit into  *)
(* the new region.  mem is the buffer and mem0 what it held at the call;   *)
(* sink holds one record for each emit_to_memory call: where it wrote, the *)
(* length of the buffer at the call, the callbacks it delivered to the     *)
(* relocation, trap and stack-map sinks and the CodeInfo it returned.      *)
(***************************************************************************)
MaxBufLen == 1
MaxEmits == 2

\* the buffers handed to compile_and_emit
Buffers == UNION {[1..n -> {255}] : n \in 0..MaxBufLen}

\* what one emission may deliver to the sinks: nothing, or a callback to each
Callbacks == {<<>>, <<"reloc", "trap", "stackmap">>}

InitEmit ==
    /\ \E f \in Functions : FreshCompile(f)
    /\ log = <<"compile_and_emit">>
    /\ apc = "compile_and_emit"
    /\ mem \in Buffers
    /\ mem0 = mem
    /\ sink = <<>>
    /\ ret = Pending
    /\ function = [signature |-> NoSignature, body |-> func]
    /\ prot = "none"

\* the `?` that always goes on
ProceedsAlways(r) == TRUE

\* let info = self.compile(isa)?; goes on when compile returned Ok
Proceeds(r) == IsOk(r)

\* the length that forgets the bytes already in the buffer
ResizedLenNoOld(old_len, info) == info.total_size

\* the length compile_and_emit resizes the buffer to
ResizedLen(old_len, info) == old_len + info.total_size

\* Vec::resize(new_len, 0)
Resize(m, new_len) ==
    [i \in 1..new_len |-> IF i <= Len(m) THEN m[i] ELSE 0]

\* n bytes of code written from offset `at` on.  The write is not bounds
\* checked: bytes written past the end of m are shown past its end.
Written(m, at, n) ==
    LET last == IF at + n > Len(m) THEN at + n ELSE Len(m)
    IN  [i \in 1..last |-> IF i > at /\ i <= at + n THEN 144
                           ELSE IF i <= Len(m) THEN m[i] ELSE 0]

\* What isa.emit_function_to_memory measures into the MemoryCodeSink
\* (sink.info.total_size), and the number of bytes it writes.  The emitter is
\* external; that it measures what compile computed is the round-trip
\* property the specification states of it, taken here as given.
EmittedSize(f) == f.size

\* Context::emit_to_memory: a MemoryCodeSink on the memory at offset `at`, the
\* emitter run on the Function in the Context with cb going to the sinks, and
\* sink.info returned
EmitToMemory(f, m, at, cb) ==
    [mem |-> Written(m, at, EmittedSize(f)),
     call |-> [offset |-> at, buflen |-> Len(m), callbacks |-> cb,
               info |-> EmittedSize(f)]]

\* compile_and_emit when compile returned an error
ReturnCompileError ==
    /\ apc = "compile_and_emit"
    /\ pc = Returned
    /\ ~Proceeds(result)
    /\ ret' = result
    /\ apc' = "returned"
    /\ UNCHANGED ctx
    /\ UNCHANGED <<log, mem, mem0, sink, function, prot>>

\* compile_and_emit after compile returned info: resize, emit, Ok(info)
EmitAfterCompile ==
    /\ apc = "compile_and_emit"
    /\ pc = Returned
    /\ Proceeds(result)
    /\ \E cb \in Callbacks :
          LET info == result
              old_len == Len(mem)
              resized == Resize(mem, ResizedLen(old_len, info))
              e == EmitToMemory(func, resized, old_len, cb)
          IN  /\ mem' = e.mem
              /\ sink' = Append(sink, e.call)
              /\ ret' = info
    /\ apc' = "returned"
    /\ UNCHANGED ctx
    /\ UNCHANGED <<log, mem0, function, prot>>

\* emit_to_memory called again by the caller, into the same region
EmitAgain ==
    /\ apc = "returned"
    /\ IsOk(ret)
    /\ Len(sink) < MaxEmits
    /\ \E cb \in Callbacks :
          LET e == EmitToMemory(func, mem, Len(mem0), cb)
          IN  /\ mem' = e.mem
              /\ sink' = Append(sink, e.call)
    /\ log' = Append(log, "emit_to_memory")
    /\ UNCHANGED ctx
    /\ UNCHANGED <<apc, mem0, ret, function, prot>>

NextEmit ==
    \/ Next
    \/ ReturnCompileError
    \/ EmitAfterCompile
    \/ EmitAgain

SpecEmit == InitEmit /\ [][NextEmit]_vars

(***************************************************************************)
(* Use of a Context by its public methods.  The caller may call any public *)
(* method, one call at a time, and assign the public field func.  log is   *)
(* the sequence of the calls made since the Context was last cleared, the  *)
(* clear() included, and MaxCalls bounds its length: clear() may be called *)
(* at any time, any other operation while the log is shorter than          *)
(* MaxCalls.  The log tells clear, set_func (func assigned), compile and   *)
(* compile_and_emit apart and has "call" for a call of any other method,   *)
(* which the trace of the call identifies.  The behaviours start at the    *)
(* first clear().  result, input                                           *)
(* and trace describe the call in progress or the last one made: each call *)
(* starts them anew, and so for mem, mem0, sink and ret, the buffer, the   *)
(* sinks and the result of the last compile_and_emit or emit_to_memory.    *)
(***************************************************************************)
MaxCalls == 3

\* Function::new(), and a Function after clear()
EmptyFunction == [bad |-> {}, badloc |-> {}, size |-> 0]

\* Context::new(), that is for_function(Function::new()), and clear() called on
\* it; no call in progress
InitReuse ==
    /\ func = EmptyFunction
    /\ cfg = "cleared"
    /\ domtree = "cleared"
    /\ loop_analysis = "cleared"
    /\ regalloc = "cleared"
    /\ flags \in Flags
    /\ pc = Returned
    /\ result = Ok
    /\ input = EmptyFunction
    /\ trace = <<>>
    /\ log = <<"clear">>
    /\ apc = "call"
    /\ mem = <<>>
    /\ mem0 = <<>>
    /\ sink = <<>>
    /\ ret = Pending
    /\ function = [signature |-> NoSignature, body |-> EmptyFunction]
    /\ prot = "none"

\* no call is in progress
CanCall == pc = Returned /\ apc \in {"compile", "call", "returned"}

\* a call that is handed no buffer and no sinks
NoBuffer ==
    /\ mem' = <<>>
    /\ mem0' = <<>>
    /\ sink' = <<>>
    /\ ret' = Pending
    /\ UNCHANGED <<function, prot>>

Idle == CanCall /\ Len(log) < MaxCalls

\* clear() that forgets the dominator tree
ClearedKeepingDomtree ==
    [func |-> EmptyFunction, cfg |-> "cleared", domtree |-> domtree,
     regalloc |-> "cleared", loop |-> "cleared"]

\* the Context after Context::clear
Cleared ==
    [func |-> EmptyFunction, cfg |-> "cleared", domtree |-> "cleared",
     regalloc |-> "cleared", loop |-> "cleared"]

\* Context::clear
Clear ==
    /\ CanCall
    /\ func' = Cleared.func
    /\ cfg' = Cleared.cfg
    /\ domtree' = Cleared.domtree
    /\ regalloc' = Cleared.regalloc
    /\ loop_analysis' = Cleared.loop
    /\ result' = Ok
    /\ input' = func
    /\ trace' = <<>>
    /\ log' = <<"clear">>
    /\ apc' = "call"
    /\ UNCHANGED <<flags, pc>>
    /\ NoBuffer

\* an analysis computed for the Function that was in the Context, once another
\* Function is installed
Outdated(st) == IF st = "valid" THEN "stale" ELSE st

\* context.func = g, as FunctionRunner::run installs a Function
SetFunc ==
    /\ Idle
    /\ \E g \in Functions : func' = g
    /\ cfg' = Outdated(cfg)
    /\ domtree' = Outdated(domtree)
    /\ loop_analysis' = Outdated(loop_analysis)
    /\ result' = Ok
    /\ input' = func
    /\ trace' = <<>>
    /\ log' = Append(log, "set_func")
    /\ apc' = "call"
    /\ UNCHANGED <<regalloc, flags, pc>>
    /\ NoBuffer

\* compile called on the Context as it is
CompileAgain ==
    /\ Idle
    /\ pc' = 1
    /\ result' = Pending
    /\ input' = func
    /\ trace' = <<>>
    /\ log' = Append(log, "compile")
    /\ apc' = "compile"
    /\ UNCHANGED <<func, cfg, domtree, loop_analysis, regalloc, flags>>
    /\ NoBuffer

\* compile_and_emit called on the Context as it is, with an empty buffer
CompileAndEmitAgain ==
    /\ Idle
    /\ pc' = 1
    /\ result' = Pending
    /\ input' = func
    /\ trace' = <<>>
    /\ log' = Append(log, "compile_and_emit")
    /\ apc' = "compile_and_emit"
    /\ mem' = <<>>
    /\ mem0' = <<>>
    /\ sink' = <<>>
    /\ ret' = Pending
    /\ UNCHANGED <<func, cfg, domtree, loop_analysis, regalloc, flags>>
    /\ UNCHANGED <<function, prot>>

\* emit_to_memory called on the Context as it is, into a region of the size
\* of the code of the Function
EmitDirect ==
    /\ Idle
    /\ \E cb \in Callbacks :
          LET e == EmitToMemory(func, [i \in 1..func.size |-> 0], 0, cb)
          IN  /\ mem' = e.mem
              /\ sink' = <<e.call>>
              /\ ret' = OkInfo(e.call.info)
    /\ mem0' = <<>>
    /\ result' = Ok
    /\ input' = func
    /\ trace' = <<>>
    /\ log' = Append(log, "call")
    /\ apc' = "call"
    /\ UNCHANGED <<func, cfg, domtree, loop_analysis, regalloc, flags, pc>>
    /\ UNCHANGED <<function, prot>>

\* the public methods that compile calls too, verify_if apart
Methods == {Pipeline[i].call : i \in 2..Len(Pipeline)}

\* the line of compile that calls method m
LineOf(m) ==
    CHOOSE i \in 2..Len(Pipeline) :
        /\ Pipeline[i].call = m
        /\ \A j \in 2..(i - 1) : Pipeline[j].call # m

\* one of these methods called on its own: the method runs as it does at its
\* line of compile, whatever the tier and the flags, and returns to the caller
CallMethod ==
    /\ Idle
    /\ \E m \in Methods : pc' = LineOf(m)
    /\ log' = Append(log, "call")
    /\ result' = Pending
    /\ input' = func
    /\ trace' = <<>>
    /\ apc' = "call"
    /\ UNCHANGED <<func, cfg, domtree, loop_analysis, regalloc, flags>>
    /\ NoBuffer

\* Context::flowgraph: compute_cfg, then compute_domtree
Flowgraph ==
    /\ Idle
    /\ cfg' = "valid"
    /\ domtree' = "valid"
    /\ trace' = <<Event("cfg.compute", "compute_cfg", Ok, "-", "-", "-"),
                  Event("domtree.compute", "compute_domtree", Ok, "valid", "-", "-")>>
    /\ result' = Ok
    /\ input' = func
    /\ log' = Append(log, "call")
    /\ apc' = "call"
    /\ UNCHANGED <<func, loop_analysis, regalloc, flags, pc>>
    /\ NoBuffer

\* a checking method called on its own; it reads the Context and returns
Checked(v) ==
    /\ Idle
    /\ result' = v.res
    /\ trace' = v.calls
    /\ input' = func
    /\ log' = Append(log, "call")
    /\ apc' = "call"
    /\ UNCHANGED <<func, cfg, domtree, loop_analysis, regalloc, flags, pc>>
    /\ NoBuffer

\* Context::verify
VerifyDirect ==
    \E v \in {Verify(rv, "verify", func, cfg, domtree) : rv \in VerifierReturns} : Checked(v)

\* Context::verify_if
VerifyIfDirect ==
    \E v \in VerifyIf(flags, "verify_if", func, cfg, domtree) : Checked(v)

\* Context::verify_locations
VerifyLocationsDirect ==
    \E v \in {VerifyLocations(rv, "verify_locations", func) : rv \in VerifierReturns} :
        Checked(v)

\* Context::verify_locations_if
VerifyLocationsIfDirect ==
    \E v \in VerifyLocationsIf(flags, "verify_locations_if", func) : Checked(v)

NextReuse ==
    \/ Next
    \/ Clear
    \/ SetFunc
    \/ CompileAgain
    \/ CompileAndEmitAgain
    \/ ReturnCompileError
    \/ EmitAfterCompile
    \/ EmitDirect
    \/ CallMethod
    \/ Flowgraph
    \/ VerifyDirect
    \/ VerifyIfDirect
    \/ VerifyLocationsDirect
    \/ VerifyLocationsIfDirect

SpecReuse == InitReuse /\ [][NextReuse]_vars

(***************************************************************************)
(* FunctionRunner::run: check the signature, compile in a new Context, map *)
(* memory, emit, make the memory executable, call the code.  function is   *)
(* the runner's Function; mem is the mapped region and prot its            *)
(* protection; log lists the steps run has started; ret is what run        *)
(* returns.                                                                *)
(***************************************************************************)
HostCallConv == "system_v"

Signatures ==
    [params : 0..1, returns : {<<>>, <<"b1">>, <<"i32">>, <<"b1", "b1">>},
     call_conv : {HostCallConv, "fast", "windows_fastcall"}]

\* Err(msg) returned by run
RunErr(msg) == [kind |-> msg, errors |-> {}, total_size |-> 0]

\* the check that accepts every signature
SignatureOkAny(sig) == TRUE

\* params.is_empty() && returns.len() == 1 && returns.first() is a bool
SignatureOk(sig) ==
    /\ sig.params = 0
    /\ Len(sig.returns) = 1
    /\ sig.returns[1] = "b1"

\* the calling convention is the host's default or Fast
CallConvOk(sig) == ~(sig.call_conv # HostCallConv /\ sig.call_conv # "fast")

\* FunctionRunner::new(function, isa); no Context exists yet
InitRun ==
    /\ \E sig \in Signatures, f \in Functions :
          function = [signature |-> sig, body |-> f]
    /\ func = EmptyFunction
    /\ cfg = "cleared"
    /\ domtree = "cleared"
    /\ loop_analysis = "cleared"
    /\ regalloc = "cleared"
    /\ flags \in Flags
    /\ pc = 0
    /\ result = Pending
    /\ input = EmptyFunction
    /\ trace = <<>>
    /\ log = <<>>
    /\ apc = "run"
    /\ mem = <<>>
    /\ mem0 = <<>>
    /\ sink = <<>>
    /\ ret = Pending
    /\ prot = "none"

\* run: the signature is not () -> boolean
RejectSignature ==
    /\ apc = "run"
    /\ ~SignatureOk(function.signature)
    /\ log' = log \o <<"check_signature">>
    /\ ret' = RunErr("signature")
    /\ apc' = "returned"
    /\ UNCHANGED ctx
    /\ UNCHANGED <<mem, mem0, sink, function, prot>>

\* run: the calling convention is neither the host's default nor Fast
RejectCallConv ==
    /\ apc = "run"
    /\ SignatureOk(function.signature)
    /\ ~CallConvOk(function.signature)
    /\ log' = log \o <<"check_signature", "check_call_conv">>
    /\ ret' = RunErr("call_conv")
    /\ apc' = "returned"
    /\ UNCHANGED ctx
    /\ UNCHANGED <<mem, mem0, sink, function, prot>>

\* run: both checks pass; Context::new(), context.func = func, and compile
\* is entered
SetUpContext ==
    /\ apc = "run"
    /\ SignatureOk(function.signature)
    /\ CallConvOk(function.signature)
    /\ func' = function.body
    /\ cfg' = "cleared"
    /\ domtree' = "cleared"
    /\ loop_analysis' = "cleared"
    /\ regalloc' = "cleared"
    /\ pc' = 1
    /\ result' = Pending
    /\ input' = function.body
    /\ trace' = <<>>
    /\ log' = log \o <<"check_signature", "check_call_conv", "Context::new", "compile">>
    /\ apc' = "run_compile"
    /\ UNCHANGED <<flags, mem, mem0, sink, ret, function, prot>>

\* run: context.compile(..).map_err(..)? when compile failed
RunCompileError ==
    /\ apc = "run_compile"
    /\ pc = Returned
    /\ ~IsOk(result)
    /\ ret' = RunErr(result.kind)
    /\ apc' = "returned"
    /\ UNCHANGED ctx
    /\ UNCHANGED <<log, mem, mem0, sink, function, prot>>

\* run: MemoryMap::new(code_info.total_size, [MapWritable]).map_err(..)?
MapMemory ==
    /\ apc = "run_compile"
    /\ pc = Returned
    /\ IsOk(result)
    /\ log' = Append(log, "MemoryMap::new")
    /\ \E mapped \in BOOLEAN :
          IF mapped
            THEN /\ mem' = [i \in 1..result.total_size |-> 0]
                 /\ prot' = "rw"
                 /\ apc' = "run_emit"
                 /\ ret' = ret
            ELSE /\ ret' = RunErr("MemoryMap::new")
                 /\ apc' = "returned"
                 /\ UNCHANGED <<mem, prot>>
    /\ mem0' = <<>>
    /\ UNCHANGED ctx
    /\ UNCHANGED <<sink, function>>

\* run: context.emit_to_memory(isa, code_page.data(), ..) with the null sinks
RunEmit ==
    /\ apc = "run_emit"
    /\ log' = Append(log, "emit_to_memory")
    /\ \E cb \in Callbacks :
          LET e == EmitToMemory(func, mem, 0, cb)
          IN  /\ mem' = e.mem
              /\ sink' = Append(sink, e.call)
    /\ apc' = "run_protect"
    /\ UNCHANGED ctx
    /\ UNCHANGED <<mem0, ret, function, prot>>

\* run: region::protect(.., Protection::ReadExecute).map_err(..)?
Protect ==
    /\ apc = "run_protect"
    /\ log' = Append(log, "region::protect")
    /\ \E protected \in BOOLEAN :
          IF protected
            THEN /\ prot' = "rx"
                 /\ apc' = "run_execute"
                 /\ ret' = ret
            ELSE /\ ret' = RunErr("region::protect")
                 /\ apc' = "returned"
                 /\ prot' = prot
    /\ UNCHANGED ctx
    /\ UNCHANGED <<mem, mem0, sink, function>>

\* run: callable_fn(); true is Ok(()), false is Err("Failed: name")
Execute ==
    /\ apc = "run_execute"
    /\ log' = Append(log, "execute")
    /\ \E returned \in BOOLEAN :
          ret' = IF returned THEN Ok ELSE RunErr("Failed")
    /\ apc' = "returned"
    /\ UNCHANGED ctx
    /\ UNCHANGED <<mem, mem0, sink, function, prot>>

NextRun ==
    \/ Next
    \/ RejectSignature
    \/ RejectCallConv
    \/ SetUpContext
    \/ RunCompileError
    \/ MapMemory
    \/ RunEmit
    \/ Protect
    \/ Execute

SpecRun == InitRun /\ [][NextRun]_vars

(***************************************************************************)
(* verify and verify_locations as functions of the Context they read and   *)
(* of what the verifier does: one call on a Context whose Function and     *)
(* analyses are in any state, with the verifier returning either value.    *)
(* log records the method called and what the verifier returned to it.     *)
(***************************************************************************)
InitVerify ==
    /\ func \in Functions
    /\ cfg \in AnalysisStates
    /\ domtree \in AnalysisStates
    /\ loop_analysis = "cleared"
    /\ regalloc = "cleared"
    /\ flags \in Flags
    /\ pc = Returned
    /\ result = Pending
    /\ input = func
    /\ trace = <<>>
    /\ log = <<>>
    /\ apc = "call"
    /\ mem = <<>>
    /\ mem0 = <<>>
    /\ sink = <<>>
    /\ ret = Pending
    /\ function = [signature |-> NoSignature, body |-> func]
    /\ prot = "none"

\* method m returns v; the verifier returned rv to it
CheckedOnce(m, rv, v) ==
    /\ log = <<>>
    /\ result' = v.res
    /\ trace' = v.calls
    /\ log' = <<[call |-> m, returned |-> rv]>>
    /\ UNCHANGED <<func, cfg, domtree, loop_analysis, regalloc, flags, pc, input>>
    /\ UNCHANGED <<apc, mem, mem0, sink, ret, function, prot>>

VerifyOnce ==
    \E rv \in VerifierReturns :
        CheckedOnce("verify", rv, Verify(rv, "verify", func, cfg, domtree))

VerifyLocationsOnce ==
    \E rv \in VerifierReturns :
        CheckedOnce("verify_locations", rv, VerifyLocations(rv, "verify_locations", func))

NextVerify ==
    \/ VerifyOnce
    \/ VerifyLocationsOnce

SpecVerify == InitVerify /\ [][NextVerify]_vars

(***************************************************************************)
(* Vocabulary of the properties.                                           *)
(***************************************************************************)
PassOps == {"do_preopt", "do_nan_canonicalization", "legalize_function", "do_postopt",
            "do_licm", "do_simple_gvn", "eliminate_unreachable_code", "do_dce",
            "regalloc.run", "isa.prologue_epilogue", "shrink_instructions",
            "relax_branches"}
ComputeOps == {"cfg.compute", "domtree.compute", "loop_analysis.compute"}
VerifyOps == {"verify_context", "verify_locations"}

Positions(op) == {i \in 1..Len(trace) : trace[i].op = op}
Ran(op) == Positions(op) # {}
Count(op) == Cardinality(Positions(op))
Succeeded == pc = Returned /\ IsOk(result)
Failed == pc = Returned /\ ~IsOk(result)

\* the steps of compile among the calls made: the initial verification, the
\* analysis computations and the passes
IsStep(e) ==
    \/ e.op \in PassOps \cup ComputeOps
    \/ e.op = "verify_context" /\ e.site = "compile"
StepOps == LET steps == SelectSeq(trace, IsStep)
           IN  [i \in 1..Len(steps) |-> steps[i].op]

RECURSIVE IsSubseq(_, _)
IsSubseq(s, t) ==
    IF s = <<>> THEN TRUE
    ELSE IF t = <<>> THEN FALSE
    ELSE IF Head(s) = Head(t) THEN IsSubseq(Tail(s), Tail(t))
    ELSE IsSubseq(s, Tail(t))

(***************************************************************************)
(* C1: in every run of compile, at every tier and flag setting, the steps  *)
(* executed so far form a subsequence of the fixed order: initial          *)
(* verification, CFG, preopt, NaN canonicalization, legalization, postopt, *)
(* dominator tree, loop analysis, LICM, GVN, dominator tree again,         *)
(* unreachable-code elimination, DCE, register allocation,                 *)
(* prologue/epilogue, shrinking, branch relaxation; no pass runs twice.    *)
(***************************************************************************)
FixedOrder ==
    <<"verify_context", "cfg.compute", "do_preopt", "do_nan_canonicalization",
      "legalize_function", "do_postopt", "domtree.compute", "loop_analysis.compute",
      "do_licm", "do_simple_gvn", "domtree.compute", "eliminate_unreachable_code",
      "do_dce", "regalloc.run", "isa.prologue_epilogue", "shrink_instructions",
      "relax_branches">>

C1_FixedOrder ==
    /\ IsSubseq(StepOps, FixedOrder)
    /\ \A op \in PassOps : Count(op) <= 1

\* a successful compile at "best" with the verifier and NaN canonicalization
\* enabled: all seventeen steps ran
C1_Witness ==
    /\ Succeeded
    /\ flags.opt_level = "Best" /\ flags.enable_verifier /\ flags.enable_nan_canonicalization
    /\ StepOps = FixedOrder

(***************************************************************************)
(* C2: at the "fastest" tier preopt, postopt, DCE, LICM, GVN and           *)
(* instruction shrinking never execute, and a compile that returned        *)
(* success has executed legalization, register allocation,                 *)
(* prologue/epilogue insertion and branch relaxation.                      *)
(***************************************************************************)
C2_FastestGating ==
    flags.opt_level = "Fastest" =>
        /\ \A op \in {"do_preopt", "do_postopt", "do_dce", "do_licm", "do_simple_gvn",
                       "shrink_instructions"} : ~Ran(op)
        /\ Succeeded =>
              \A op \in {"legalize_function", "regalloc.run", "isa.prologue_epilogue",
                         "relax_branches"} : Ran(op)

C2_Witness ==
    /\ Succeeded
    /\ flags.opt_level = "Fastest"
    /\ Ran("relax_branches")

(***************************************************************************)
(* C3, as stated: at the "fastest" tier the only passes and analysis       *)
(* computations that compile runs are legalization, register allocation,   *)
(* prologue/epilogue insertion and branch relaxation.                      *)
(***************************************************************************)
C3_Original ==
    flags.opt_level = "Fastest" =>
        \A i \in 1..Len(trace) :
            trace[i].op \in PassOps \cup ComputeOps =>
                trace[i].op \in {"legalize_function", "regalloc.run",
                                 "isa.prologue_epilogue", "relax_branches"}

(***************************************************************************)
(* C3, amended: at the "fastest" tier compile runs no optional rewrite     *)
(* pass (preopt, postopt, LICM, GVN, DCE, instruction shrinking) and no    *)
(* loop analysis, but besides legalization, register allocation,           *)
(* prologue/epilogue insertion and branch relaxation it also computes the  *)
(* CFG and the dominator tree (once each), runs unreachable-code           *)
(* elimination, and runs NaN canonicalization exactly when its flag is     *)
(* enabled.                                                                *)
(***************************************************************************)
C3_FastestPasses ==
    flags.opt_level = "Fastest" =>
        /\ \A i \in 1..Len(trace) :
              trace[i].op \in PassOps \cup ComputeOps =>
                  trace[i].op \in {"cfg.compute", "do_nan_canonicalization",
                                   "legalize_function", "domtree.compute",
                                   "eliminate_unreachable_code", "regalloc.run",
                                   "isa.prologue_epilogue", "relax_branches"}
        /\ Count("cfg.compute") <= 1
        /\ Count("domtree.compute") <= 1
        /\ Ran("do_nan_canonicalization") => flags.enable_nan_canonicalization
        /\ Succeeded =>
              /\ Ran("cfg.compute") /\ Ran("domtree.compute")
              /\ Ran("eliminate_unreachable_code")
              /\ Ran("do_nan_canonicalization") <=> flags.enable_nan_canonicalization

C3_Witness ==
    /\ Succeeded
    /\ flags.opt_level = "Fastest"
    /\ Ran("do_nan_canonicalization")
    /\ Ran("eliminate_unreachable_code")
    /\ Ran("domtree.compute")

(***************************************************************************)
(* C4: at the default tier every successful compile has executed preopt,   *)
(* postopt and DCE, and loop-analysis computation, LICM, GVN and           *)
(* instruction shrinking never execute.                                    *)
(***************************************************************************)
C4_DefaultGating ==
    flags.opt_level = "Default" =>
        /\ Succeeded => \A op \in {"do_preopt", "do_postopt", "do_dce"} : Ran(op)
        /\ \A op \in {"loop_analysis.compute", "do_licm", "do_simple_gvn",
                       "shrink_instructions"} : ~Ran(op)

C4_Witness ==
    /\ Succeeded
    /\ flags.opt_level = "Default"
    /\ Ran("do_dce")

(***************************************************************************)
(* C5, as stated: at the "best" tier every successful compile has computed *)
(* the dominator tree at least twice and the loop analysis at least twice. *)
(***************************************************************************)
C5_Original ==
    (flags.opt_level = "Best" /\ Succeeded) =>
        /\ Count("domtree.compute") >= 2
        /\ Count("loop_analysis.compute") >= 2

(***************************************************************************)
(* C5, amended: at the "best" tier every successful compile has computed   *)
(* the dominator tree exactly twice, once before LICM and GVN and again    *)
(* after them and before unreachable-code elimination, and the loop        *)
(* analysis exactly once, between the first dominator-tree computation and *)
(* LICM; the loop analysis is not recomputed.                              *)
(***************************************************************************)
C5_BestRecomputation ==
    (flags.opt_level = "Best" /\ Succeeded) =>
        /\ Count("domtree.compute") = 2
        /\ Count("loop_analysis.compute") = 1
        /\ \E i, j \in Positions("domtree.compute") :
              /\ i < j
              /\ \A l \in Positions("loop_analysis.compute") :
                    i < l /\ \A k \in Positions("do_licm") : l < k
              /\ \A k \in Positions("do_licm") \cup Positions("do_simple_gvn") :
                    i < k /\ k < j
              /\ Ran("do_licm") /\ Ran("do_simple_gvn")
              /\ \A u \in Positions("eliminate_unreachable_code") : j < u

C5_Witness ==
    /\ Succeeded
    /\ flags.opt_level = "Best"
    /\ Count("domtree.compute") = 2
    /\ Count("loop_analysis.compute") = 1

(***************************************************************************)
(* C6: compile is fail-fast.  A call that failed (the initial              *)
(* verification, a pass, or a verification after a pass) is the last call  *)
(* compile made: nothing runs after it, compile has returned, and what it  *)
(* returned is that failure, never a CodeInfo.  Conversely compile returns *)
(* an error only when its last call failed.                                *)
(***************************************************************************)
C6_FailFast ==
    /\ \A i \in 1..Len(trace) :
          ~IsOk(trace[i].res) =>
              /\ i = Len(trace)
              /\ pc = Returned
              /\ result = trace[i].res
              /\ ~IsOk(result)
    /\ Failed => (trace # <<>> /\ result = trace[Len(trace)].res)
    /\ pc # Returned => result = Pending

\* a verification after legalization failed, and compile returned with
\* register allocation never run
C6_Witness ==
    /\ Failed
    /\ trace # <<>>
    /\ trace[Len(trace)].site = "legalize"
    /\ result.kind = "Verifier"
    /\ ~Ran("regalloc.run")

(***************************************************************************)
(* C7, as stated: with the verifier enabled, between any two passes that   *)
(* compile runs there is a verification check.                             *)
(***************************************************************************)
C7_Original ==
    flags.enable_verifier =>
        \A i, j \in 1..Len(trace) :
            (i < j /\ trace[i].op \in PassOps /\ trace[j].op \in PassOps) =>
                \E k \in (i + 1)..(j - 1) : trace[k].op \in VerifyOps

(***************************************************************************)
(* C7, amended: with the verifier enabled, every pass other than register  *)
(* allocation that returned success is immediately followed by a           *)
(* verification made by the same Context method, before the next pass      *)
(* starts.  Register allocation is followed by no verification: the next   *)
(* call after it is prologue/epilogue insertion, so the verification after *)
(* prologue/epilogue insertion covers both passes.                         *)
(***************************************************************************)
C7_VerifiedAfterPass ==
    flags.enable_verifier =>
        \A i \in 1..Len(trace) :
            (trace[i].op \in PassOps /\ IsOk(trace[i].res)) =>
                IF trace[i].op = "regalloc.run"
                THEN i < Len(trace) => trace[i + 1].op = "isa.prologue_epilogue"
                ELSE /\ i < Len(trace)
                     /\ trace[i + 1].op = "verify_context"
                     /\ trace[i + 1].site = trace[i].site

C7_Witness ==
    /\ Succeeded
    /\ flags.enable_verifier
    /\ flags.opt_level = "Best"
    /\ \E i \in Positions("regalloc.run") : trace[i + 1].op = "isa.prologue_epilogue"
    /\ \E i \in Positions("do_licm") : trace[i + 1].op = "verify_context"

Handed(i) ==
    IF \E j \in 1..(i - 1) : trace[j].op \in {"do_licm", "do_simple_gvn"}
    THEN {"-", "valid", "stale"}
    ELSE {"-", "valid"}

C9_VerifierDisabled ==
    ~flags.enable_verifier =>
        /\ \A i \in 1..Len(trace) : trace[i].op \notin VerifyOps
        /\ result.kind # "Verifier"
        /\ Failed =>
              /\ trace # <<>>
              /\ trace[Len(trace)].op \in PassOps
              /\ result = PassErr(trace[Len(trace)].op)

\* a Function the verifier would reject, with a stale dominator tree on top,
\* compiled successfully
C9_Witness ==
    /\ Succeeded
    /\ ~flags.enable_verifier
    /\ VerifyContext(input, "cleared", "cleared") # {}
    /\ VerifyContext(func, cfg, domtree) # {}
    /\ VerifyLocationsFn(func) # {}

(***************************************************************************)
(* C10, as stated: with the verifier enabled, compiling a Function that    *)
(* the verifier rejects fails with a non-empty verification error, and the *)
(* check that fails is the first verification that follows a pass.         *)
(***************************************************************************)
Rejected(f) == VerifyContext(f, "cleared", "cleared") # {}

C10_Original ==
    (flags.enable_verifier /\ Rejected(input) /\ pc = Returned) =>
        /\ result.kind = "Verifier"
        /\ result.errors # {}
        /\ trace # <<>>
        /\ trace[Len(trace)].op = "verify_context"
        /\ trace[Len(trace)].site # "compile"
        /\ \E i \in 1..Len(trace) : trace[i].op \in PassOps

(***************************************************************************)
(* C10, amended: with the verifier enabled, compiling a Function that the  *)
(* verifier rejects fails with a verification error that carries the       *)
(* non-empty list of the Function's violations, and the check that fails   *)
(* is the initial verification at the start of compile: it is the only     *)
(* call compile makes, so no analysis is computed and no pass runs.        *)
(***************************************************************************)
C10_FailsAtInitialCheck ==
    (flags.enable_verifier /\ Rejected(input)) =>
        /\ pc = Returned =>
              /\ result = VerifierErr(VerifyContext(input, "cleared", "cleared"))
              /\ result.errors # {}
              /\ trace = <<Event("verify_context", "compile", result, "cleared", "cleared", "-")>>
        /\ pc # Returned => trace = <<>>
        /\ func = input

C10_Witness ==
    /\ flags.enable_verifier
    /\ Rejected(input)
    /\ Failed
    /\ Cardinality(result.errors) >= 2

\* method m has been called and has returned
Called(m) == log # <<>> /\ log[1].call = m

\* the method returned Err(errors) when the list is non-empty and Ok(()) when
\* it is empty
Reported(errors) ==
    /\ IsOk(result) <=> errors = {}
    /\ IsOk(result) => result = Ok
    /\ ~IsOk(result) => result = VerifierErr(errors)

(***************************************************************************)
(* C14: verify and verify_locations return an error exactly when the       *)
(* violation list accumulated by that verifier run is non-empty, whichever *)
(* value the verifier itself returned; the error carries the whole list,   *)
(* never only one element of it, and success is returned only when the     *)
(* list is empty.                                                          *)
(***************************************************************************)
C14_CompleteList ==
    /\ Called("verify") =>
          /\ log[1].returned \in VerifierReturns
          /\ Reported(VerifyContext(func, cfg, domtree))
    /\ Called("verify_locations") =>
          /\ log[1].returned \in VerifierReturns
          /\ Reported(VerifyLocationsFn(func))

\* verify_locations on a Function with two location violations, the verifier
\* itself returning Ok: the error returned carries both
C14_Witness ==
    /\ Called("verify_locations")
    /\ log[1].returned = "Ok"
    /\ result.kind = "Verifier"
    /\ Cardinality(result.errors) = 2
    /\ result.errors = VerifyLocationsFn(func)

(***************************************************************************)
(* C16, as stated: at the "best" tier with the verifier enabled, between   *)
(* any two of the steps dominator-tree computation, loop-analysis          *)
(* computation, LICM and GVN there is a verification check.                *)
(***************************************************************************)
BestSteps == {"domtree.compute", "loop_analysis.compute", "do_licm", "do_simple_gvn"}

C16_Original ==
    (flags.opt_level = "Best" /\ flags.enable_verifier) =>
        \A i, j \in 1..Len(trace) :
            (i < j /\ trace[i].op \in BestSteps /\ trace[j].op \in BestSteps) =>
                \E k \in (i + 1)..(j - 1) : trace[k].op \in VerifyOps

(***************************************************************************)
(* C16, amended: at the "best" tier with the verifier enabled, LICM and    *)
(* GVN are each immediately followed by a verification check, but the two  *)
(* analysis computations are not: the loop-analysis computation directly   *)
(* follows the first dominator-tree computation, and LICM directly follows *)
(* the loop-analysis computation.                                          *)
(***************************************************************************)
C16_BestVerification ==
    (flags.opt_level = "Best" /\ flags.enable_verifier) =>
        /\ \A i \in Positions("do_licm") \cup Positions("do_simple_gvn") :
              /\ i < Len(trace)
              /\ trace[i + 1].op = "verify_context"
              /\ trace[i + 1].site = trace[i].site
        /\ \A i \in Positions("loop_analysis.compute") :
              /\ trace[i - 1].op = "domtree.compute"
              /\ i < Len(trace) => trace[i + 1].op = "do_licm"
        /\ \A i \in Positions("do_simple_gvn") :
              \E j \in Positions("do_licm") : j + 2 = i

C16_Witness ==
    /\ flags.opt_level = "Best"
    /\ flags.enable_verifier
    /\ Succeeded
    /\ Ran("loop_analysis.compute")
    /\ \E i \in Positions("do_simple_gvn") : trace[i + 1].op = "verify_context"

(***************************************************************************)
(* C17: with the verifier enabled, nothing is verified between register    *)
(* allocation and prologue/epilogue insertion; the locations are verified  *)
(* only in prologue_epilogue, shrink_instructions and relax_branches, after*)
(* register allocation has completed; and in each of the three the         *)
(* structure is verified first and the locations only if that succeeded.   *)
(***************************************************************************)
LocationSites == {"prologue_epilogue", "shrink_instructions", "relax_branches"}

C17_LocationVerification ==
    flags.enable_verifier =>
        /\ \A i \in Positions("regalloc.run") :
              i < Len(trace) => trace[i + 1].op = "isa.prologue_epilogue"
        /\ \A i \in Positions("verify_locations") :
              /\ trace[i].site \in LocationSites
              /\ i > 2
              /\ trace[i - 1].op = "verify_context"
              /\ trace[i - 1].site = trace[i].site
              /\ IsOk(trace[i - 1].res)
              /\ trace[i - 2].op \in PassOps
              /\ trace[i - 2].site = trace[i].site
              /\ \E j \in Positions("regalloc.run") : j < i /\ IsOk(trace[j].res)
        /\ \A i \in 1..Len(trace) :
              (trace[i].site \in LocationSites /\ trace[i].op \in PassOps
                  /\ IsOk(trace[i].res)) =>
                  /\ i < Len(trace)
                  /\ trace[i + 1].op = "verify_context"
                  /\ IsOk(trace[i + 1].res) =>
                        (i + 1 < Len(trace) /\ trace[i + 2].op = "verify_locations")

\* the structure verified and the locations then found wrong after
\* prologue/epilogue insertion
C17_Witness ==
    /\ flags.enable_verifier
    /\ Failed
    /\ trace # <<>>
    /\ trace[Len(trace)].op = "verify_locations"
    /\ trace[Len(trace)].site = "prologue_epilogue"

(***************************************************************************)
(* C18: NaN canonicalization is gated by its own flag and not by the tier. *)
(* In every compile that has reached legalization it has run exactly once  *)
(* when the flag is enabled, after preopt (if preopt ran) and before       *)
(* legalization, and not at all when the flag is disabled.                 *)
(***************************************************************************)
C18_NanGating ==
    Ran("legalize_function") =>
        /\ flags.enable_nan_canonicalization => Count("do_nan_canonicalization") = 1
        /\ ~flags.enable_nan_canonicalization => Count("do_nan_canonicalization") = 0
        /\ \A n \in Positions("do_nan_canonicalization") :
              /\ \A l \in Positions("legalize_function") : n < l
              /\ \A q \in Positions("do_preopt") : q < n

C18_Witness ==
    /\ flags.opt_level = "Fastest"
    /\ flags.enable_nan_canonicalization
    /\ Ran("legalize_function")
    /\ Count("do_nan_canonicalization") = 1
    /\ ~Ran("do_preopt")

(***************************************************************************)
(* Claims about a reused Context (SpecReuse).                              *)
(***************************************************************************)
LastCall == log[Len(log)]

\* the events of the current call at which a computed dominator tree is read
ReadsDomtree(i) ==
    /\ trace[i].op \notin {"domtree.clear", "loop_analysis.clear"}
    /\ trace[i].domtree \in {"valid", "stale"}

\* the events of the current call at which a computed loop analysis is read
ReadsLoop(i) ==
    /\ trace[i].op \notin {"domtree.clear", "loop_analysis.clear"}
    /\ trace[i].loop \in {"valid", "stale"}

\* C15: every call of legalize, inside compile or directly, clears the
\* dominator tree and the loop analysis before the legalizer is invoked (the
\* two clear calls directly precede it); both are cleared when legalize
\* returns, with success or with a verification failure, and the check made
\* by legalize sees the cleared dominator tree; after a legalization no
\* computed dominator tree or loop analysis is read before it has been
\* computed again.
C15_LegalizeClears ==
    /\ \A i \in 1..Len(trace) :
          trace[i].op = "legalize_function" =>
            /\ i >= 3
            /\ trace[i-2].op = "domtree.clear"
            /\ trace[i-1].op = "loop_analysis.clear"
            /\ \A j \in (i+1)..Len(trace) :
                  /\ trace[j].site = "legalize" => trace[j].domtree = "cleared"
                  /\ ReadsDomtree(j) =>
                        \E k \in (i+1)..(j-1) : trace[k].op = "domtree.compute"
                  /\ ReadsLoop(j) =>
                        \E k \in (i+1)..(j-1) : trace[k].op = "loop_analysis.compute"
    /\ (trace # <<>> /\ trace[Len(trace)].site = "legalize") =>
          /\ Ran("legalize_function")
          /\ domtree = "cleared"
          /\ loop_analysis = "cleared"

\* legalize called directly on a Context whose dominator tree and loop
\* analysis were computed by an earlier compile, returning a verification
\* failure
C15_Witness ==
    /\ LastCall = "call"
    /\ apc = "call"
    /\ pc = Returned
    /\ \E i \in 1..Len(trace) :
          trace[i].op = "domtree.clear" /\ trace[i].domtree \in {"valid", "stale"}
    /\ \E i \in 1..Len(trace) :
          trace[i].op = "loop_analysis.clear" /\ trace[i].loop \in {"valid", "stale"}
    /\ result.kind = "Verifier"
    /\ domtree = "cleared"
    /\ loop_analysis = "cleared"

\* C13: after whatever was done with a Context before, clear(), installing a
\* Function g and calling compile starts compile in the state in which
\* compile starts in a freshly constructed Context holding g, for every g,
\* tier and flag setting.  The steps of compile read and write the Context,
\* the flags and nothing else, so the two compilations have the same
\* results and the same final Function, CFG, dominator tree, loop analysis
\* and register-allocation state.
C13_ReuseIsolation ==
    (/\ log = <<"clear", "set_func", "compile">>
     /\ pc = 1)
    => \E g \in Functions : FreshCompile(g)

\* a Function compiled with success in a Context that was used for another
\* compile, cleared, and given the Function
C13_Witness ==
    /\ log = <<"clear", "set_func", "compile">>
    /\ pc = Returned
    /\ Succeeded
    /\ regalloc # "cleared"

(***************************************************************************)
(* Claims about compile_and_emit and emit_to_memory (SpecEmit).            *)
(***************************************************************************)
EmitReturned == apc = "returned"

\* C11: when compile succeeds with info, compile_and_emit on a buffer of
\* length L leaves the buffer with length exactly L + info.total_size and its
\* first L bytes as they were, emits from offset L on into a buffer that
\* already has length at least L + info.total_size when emit_to_memory is
\* called, and returns info.
C11_BufferGrowth ==
    (EmitReturned /\ IsOk(result)) =>
        /\ sink # <<>>
        /\ Len(mem) = Len(mem0) + result.total_size
        /\ SubSeq(mem, 1, Len(mem0)) = mem0
        /\ sink[1].offset = Len(mem0)
        /\ sink[1].buflen >= Len(mem0) + result.total_size
        /\ ret = result

\* compile_and_emit has returned info for a buffer that was not empty, and
\* the code lies behind the old bytes
C11_Witness ==
    /\ EmitReturned
    /\ IsOk(ret)
    /\ Len(sink) = 1
    /\ Len(mem0) = MaxBufLen
    /\ ret.total_size = MaxCodeSize
    /\ mem = mem0 \o [i \in 1..MaxCodeSize |-> 144]

\* C20: when compile fails inside compile_and_emit, the buffer keeps its
\* length and contents, emit_to_memory is not called, no callback reaches a
\* sink, and compile_and_emit returns the error of compile.
C20_FailureFrame ==
    (pc = Returned /\ ~IsOk(result)) =>
        /\ mem = mem0
        /\ sink = <<>>
        /\ EmitReturned => ret = result

\* compile_and_emit has returned the error of register allocation, with a
\* buffer that was not empty
C20_Witness ==
    /\ EmitReturned
    /\ ret = PassErr("regalloc.run")
    /\ mem0 # <<>>
    /\ mem = mem0
    /\ sink = <<>>

(***************************************************************************)
(* Claims about FunctionRunner::run (SpecRun).                             *)
(***************************************************************************)
RunSteps ==
    <<"check_signature", "check_call_conv", "Context::new", "compile",
      "MemoryMap::new", "emit_to_memory", "region::protect", "execute">>

Started(step) == \E i \in 1..Len(log) : log[i] = step

\* C19: run starts its steps in the order signature check, compile, memory
\* mapping, emission, protection change, execution.  A Function whose
\* signature is not () -> boolean, or whose calling convention is neither
\* the host's default nor Fast, is rejected with no Context created and no
\* compile started; emission starts only after compile has succeeded, into
\* a region of the total_size compile returned; the region is executable
\* only after emission; and the code is not executed when the signature
\* check, compile, the mapping or the protection change failed.
C19_RunOrder ==
    /\ Len(log) <= Len(RunSteps)
    /\ log = SubSeq(RunSteps, 1, Len(log))
    /\ LET sig == function.signature
           accepted == /\ sig.params = 0
                       /\ sig.returns = <<"b1">>
                       /\ sig.call_conv \in {HostCallConv, "fast"}
       IN  /\ ~accepted =>
                 /\ ~Started("Context::new")
                 /\ ~Started("compile")
                 /\ pc = 0
                 /\ trace = <<>>
                 /\ apc = "returned" => ret \in {RunErr("signature"), RunErr("call_conv")}
           /\ Started("compile") => accepted
    /\ Started("MemoryMap::new") => pc = Returned /\ IsOk(result)
    /\ Started("emit_to_memory") =>
          /\ pc = Returned /\ IsOk(result)
          /\ Len(sink) = 1
          /\ sink[1].offset = 0
          /\ sink[1].buflen = result.total_size
          /\ Len(mem) = result.total_size
    /\ ~Started("emit_to_memory") => sink = <<>>
    /\ prot = "rx" => Started("emit_to_memory") /\ sink # <<>>
    /\ Started("execute") =>
          /\ IsOk(result)
          /\ prot = "rx"
          /\ ret \in {Ok, RunErr("Failed")}
    /\ (apc = "returned" /\ ret \notin {Ok, RunErr("Failed")}) => ~Started("execute")

\* run has executed the code of an accepted Function and returned Ok
C19_Witness ==
    /\ log = RunSteps
    /\ apc = "returned"
    /\ ret = Ok
    /\ prot = "rx"
    /\ Len(mem) = MaxCodeSize
    /\ function.signature.call_conv = "fast"

=============================================================================
